---------------------------- MODULE Spec2Model ----------------------------
(***************************************************************************)
(* A model of mapper.py: the radius -> zoom mapping, the spiral generator, *)
(* the scan loop (bounding-box discovery, per-cell retries, records), the  *)
(* CSV set operations of filter mode and the worker pool of capture mode.  *)
(*                                                                         *)
(* Each mode is one specification over the variables it uses; the other    *)
(* variables keep their initial values.  Lengths are integers: radii in    *)
(* metres (meters = kilometers * 1000 in compute_zoom), positions in       *)
(* pixels.                                                                 *)
(***************************************************************************)
EXTENDS Integers, Sequences, FiniteSets, TLC

VARIABLES
    \* radius entry and compute_zoom (scan_locations, lines 150-154)
    zPc, zInput, radius, zoom, prevRadius, prevZoom,
    \* the spiral generator and what it has yielded
    gen, visited,
    \* capture mode (find_images): the rows read, the pool's futures, the counters
    capPc, total, futures, success_count, pbar,
    \* filter mode (filter_locations): two files of locations/, the newest result
    \* file with the command that wrote it, and the last command's locals
    file1, file2, outFile, outCmd, last,
    \* scan mode (scan_locations): the canvas, the map's scale, the locals of the
    \* two limit loops and of the per-cell loop, and the rows written
    scPc, width, height, bounding_box, metersPerPixel, limits, x, y, stepsLeft,
    attempt, success, reloads, coords, address, building_count, rows

zoomVars == <<zPc, zInput, radius, zoom, prevRadius, prevZoom>>
spiralVars == <<gen, visited>>
captureVars == <<capPc, total, futures, success_count, pbar>>
filterVars == <<file1, file2, outFile, outCmd, last>>
scanVars ==
    <<scPc, width, height, bounding_box, metersPerPixel, limits, x, y, stepsLeft,
      attempt, success, reloads, coords, address, building_count, rows>>
vars == <<zoomVars, spiralVars, captureVars, filterVars, scanVars>>

None == "none"

Max(a, b) == IF a >= b THEN a ELSE b
Abs(a) == IF a >= 0 THEN a ELSE 0 - a
RECURSIVE Pow(_, _)
Pow(b, e) == IF e = 0 THEN 1 ELSE b * Pow(b, e - 1)

(***************************************************************************)
(* validate_radius and compute_zoom                                        *)
(***************************************************************************)
\* 0.01 km and 10000 km (validate_radius), in metres
MinRadiusMeters == 10
MaxRadiusMeters == 10000000

ValidateRadius(meters) == MinRadiusMeters <= meters /\ meters <= MaxRadiusMeters

\* the two cut-offs of compute_zoom and the zoom levels returned there
NearMeters == 71
FarMeters == 1164888
NearZoom == 21
FarZoom == 7
init_meters == 1165116
BaseZoom == 6

\* floor(init_meters * sqrt 2); 1393/985 is a convergent of sqrt 2 and gives
\* the same floor, also after the division by every 2^e, e in 0..15.
InitMetersRoot2 == (init_meters * 1393) \div 985

\* round(math.log2(init_meters / meters)) for the integers 0 < meters < init_meters:
\* log2(init_meters / meters) >= e - 1/2  iff  meters * 2^e <= init_meters * sqrt 2,
\* and no ratio of integers has a logarithm that is exactly a half-integer, so
\* round() never meets a tie.
RoundLog2Ratio(meters) ==
    CHOOSE e \in 0..20 :
        /\ meters <= InitMetersRoot2 \div Pow(2, e)
        /\ ~(meters <= InitMetersRoot2 \div Pow(2, e + 1))

compute_zoom(meters) ==
    IF meters <= NearMeters THEN NearZoom
    ELSE IF meters >= FarMeters THEN FarZoom
    ELSE BaseZoom + RoundLog2Ratio(meters)

\* The radii the operator types, in metres: every scale from 1 m to 90000 km
\* and the two cut-offs of compute_zoom with their neighbours.
RadiusInputs ==
    {b * Pow(10, e) : b \in 1..9, e \in 0..7}
        \cup {NearMeters, NearMeters + 1, FarMeters - 1, FarMeters}

\* no radius entered, no zoom computed, no scan before this one
ZoomInit ==
    /\ zPc = "prompt"
    /\ zInput = 0
    /\ radius = 0
    /\ zoom = 0
    /\ prevRadius = 0
    /\ prevZoom = 0

\* get_input('Enter radius ...', validate_radius, 'Invalid radius!'): one entry
EnterRadius ==
    /\ zPc = "prompt"
    /\ \E m \in RadiusInputs :
        /\ zInput' = m
        /\ IF ValidateRadius(m)
           THEN radius' = m /\ zPc' = "validated"
           ELSE radius' = radius /\ zPc' = "prompt"
    /\ UNCHANGED <<zoom, prevRadius, prevZoom>>
    /\ UNCHANGED <<spiralVars, captureVars, filterVars, scanVars>>

\* zoom = compute_zoom(radius); the scan itself is SpecScan
ComputeZoom ==
    /\ zPc = "validated"
    /\ zoom' = compute_zoom(radius)
    /\ zPc' = "scanned"
    /\ UNCHANGED <<zInput, radius, prevRadius, prevZoom>>
    /\ UNCHANGED <<spiralVars, captureVars, filterVars, scanVars>>

\* the main menu loop runs scan mode again
NextScan ==
    /\ zPc = "scanned"
    /\ prevRadius' = radius
    /\ prevZoom' = zoom
    /\ zPc' = "prompt"
    /\ zInput' = 0
    /\ UNCHANGED <<radius, zoom>>
    /\ UNCHANGED <<spiralVars, captureVars, filterVars, scanVars>>

(***************************************************************************)
(* spiral(width, height, limits, step): a generator, resumed by next()     *)
(***************************************************************************)
directions == <<<<1, 0>>, <<0, 1>>, <<-1, 0>>, <<0, -1>>>>

XMin(g) == g.limits[1]
XMax(g) == g.width - g.limits[1]
YMin(g) == g.limits[2]
YMax(g) == g.height - g.limits[2]

\* the generator object, before its first next()
Spiral(w, h, lim, s) ==
    [width |-> w, height |-> h, limits |-> lim, step |-> s,
     x |-> 0, y |-> 0, direction |-> 0, segment_length |-> 1,
     leg |-> 0, i |-> 0, pc |-> "created"]

\* lines 96-105: one move; return when outside the box, else yield
SpiralMove(g) ==
    LET dx == directions[g.direction + 1][1]
        dy == directions[g.direction + 1][2]
        nx == g.x + dx * g.step
        ny == g.y + dy * g.step
    IN  IF nx < XMin(g) \/ nx > XMax(g) \/ ny < YMin(g) \/ ny > YMax(g)
        THEN [g EXCEPT !.x = nx, !.y = ny, !.pc = "returned"]
        ELSE [g EXCEPT !.x = nx, !.y = ny, !.pc = "yielded"]

\* lines 107-108: the test made after a yield, when the generator is resumed
SpiralAtEdge(g) ==
    LET dx == directions[g.direction + 1][1]
        dy == directions[g.direction + 1][2]
    IN  \/ (dx > 0 /\ g.x >= XMax(g))
        \/ (dx < 0 /\ g.x <= XMin(g))
        \/ (dy > 0 /\ g.y >= YMax(g))
        \/ (dy < 0 /\ g.y <= YMin(g))

\* SpiralAdvance without line 113: the segments never grow
SpiralAdvance_NoGrowth(g) ==
    IF g.i + 1 < g.segment_length
    THEN [g EXCEPT !.i = g.i + 1]
    ELSE [g EXCEPT !.i = 0, !.direction = (g.direction + 1) % 4,
                   !.leg = (g.leg + 1) % 2]

\* the loop counters after one pass of the innermost loop: the next pass of the
\* same segment, else the next direction (line 111), else a longer segment (113)
SpiralAdvance(g) ==
    IF g.i + 1 < g.segment_length
    THEN [g EXCEPT !.i = g.i + 1]
    ELSE IF g.leg + 1 < 2
    THEN [g EXCEPT !.i = 0, !.direction = (g.direction + 1) % 4, !.leg = g.leg + 1]
    ELSE [g EXCEPT !.i = 0, !.direction = (g.direction + 1) % 4, !.leg = 0,
                   !.segment_length = g.segment_length + 1]

\* one next() on the generator
SpiralResume(g) ==
    CASE g.pc = "created" ->
            [g EXCEPT !.x = g.width \div 2, !.y = g.height \div 2, !.pc = "first"]
      [] g.pc = "first" -> SpiralMove(g)
      [] g.pc = "yielded" ->
            IF SpiralAtEdge(g) THEN [g EXCEPT !.pc = "returned"]
            ELSE SpiralMove(SpiralAdvance(g))
      [] OTHER -> g

SpiralYielding(g) == g.pc \in {"first", "yielded"}

\* bounds of the spiral's arguments
MaxWidth == 6
MaxHeight == 6
MaxLimit == 3
MaxStep == 2

SpiralInit ==
    /\ \E w \in 0..MaxWidth, h \in 0..MaxHeight,
          lx \in 0..MaxLimit, ly \in 0..MaxLimit, s \in 1..MaxStep :
            gen = Spiral(w, h, <<lx, ly>>, s)
    /\ visited = <<>>

\* the consumer's for loop asks for the next cell and gets one
SpiralYield ==
    /\ gen.pc # "returned"
    /\ SpiralYielding(SpiralResume(gen))
    /\ gen' = SpiralResume(gen)
    /\ visited' = Append(visited, <<gen'.x, gen'.y>>)
    /\ UNCHANGED <<zoomVars, captureVars, filterVars, scanVars>>

\* ... or the generator ends
SpiralReturn ==
    /\ gen.pc # "returned"
    /\ ~SpiralYielding(SpiralResume(gen))
    /\ gen' = SpiralResume(gen)
    /\ visited' = visited
    /\ UNCHANGED <<zoomVars, captureVars, filterVars, scanVars>>

(***************************************************************************)
(* Capture mode: find_images and capture_location                          *)
(***************************************************************************)
batch_size == 5

\* the most rows the input CSV holds
MaxLocations == 6

\* What one capture_location call can end in.  Every statement of its try block
\* is a browser call that may raise; the only handler is for KeyboardInterrupt.
\*   "timeout"     page.goto or a wait_for_selector raises PlaywrightTimeoutError
\*   "loaded"      the page loads, and line 434 reads img_selector, a name that
\*                 is nowhere defined: NameError
\*   "interrupted" KeyboardInterrupt inside the try block: handled, returns 0
CaptureOutcomes == {"timeout", "loaded", "interrupted"}

\* whether capture_location raises instead of returning: every exception but
\* the one its handler names leaves it
CaptureRaises(outcome) == outcome \in {"timeout", "loaded"}

\* the value capture_location returns when it does: line 452 (line 448 comes
\* after line 434, which always raises)
CaptureReturn(outcome) == 0

FuturesIn(st) == {t \in 1..Len(futures) : futures[t].state = st}

\* PoolHasIdleWorker of a pool that starts a thread for every call submitted
PoolHasIdleWorker_Unbounded == TRUE

\* ThreadPoolExecutor(max_workers=batch_size): a queued call starts only while
\* fewer than max_workers calls are running
PoolHasIdleWorker == Cardinality(FuturesIn("running")) < batch_size

\* executor.submit(capture_location, loc) for the next row of locations
SubmitTo(fs, loc) == Append(fs, [loc |-> loc, state |-> "queued", outcome |-> None])

\* line 478, one pass of the dict comprehension
Submit ==
    /\ capPc = "submit"
    /\ Len(futures) < total
    /\ futures' = SubmitTo(futures, Len(futures) + 1)
    /\ UNCHANGED <<capPc, total, success_count, pbar>>
    /\ UNCHANGED <<zoomVars, spiralVars, filterVars, scanVars>>

\* the comprehension is done: the as_completed loop starts
StartCollect ==
    /\ capPc = "submit"
    /\ Len(futures) = total
    /\ capPc' = "collect"
    /\ UNCHANGED <<total, futures, success_count, pbar>>
    /\ UNCHANGED <<zoomVars, spiralVars, filterVars, scanVars>>

\* a pool thread takes the oldest queued call (the work queue is FIFO)
WorkerStart ==
    /\ FuturesIn("queued") # {}
    /\ PoolHasIdleWorker
    /\ LET t == CHOOSE q \in FuturesIn("queued") :
                    \A o \in FuturesIn("queued") : q <= o
       IN  futures' = [futures EXCEPT ![t].state = "running"]
    /\ UNCHANGED <<capPc, total, success_count, pbar>>
    /\ UNCHANGED <<zoomVars, spiralVars, filterVars, scanVars>>

\* capture_location ends: the future holds its result or its exception
WorkerFinish ==
    /\ \E t \in FuturesIn("running"), o \in CaptureOutcomes :
          futures' = [futures EXCEPT ![t].state = "done", ![t].outcome = o]
    /\ UNCHANGED <<capPc, total, success_count, pbar>>
    /\ UNCHANGED <<zoomVars, spiralVars, filterVars, scanVars>>

\* lines 480-486 for a future whose call returned
CollectResult ==
    /\ capPc = "collect"
    /\ \E t \in FuturesIn("done") :
        /\ ~CaptureRaises(futures[t].outcome)
        /\ success_count' = IF CaptureReturn(futures[t].outcome) # 0
                            THEN success_count + 1 ELSE success_count
        /\ pbar' = pbar + 1
        /\ futures' = [futures EXCEPT ![t].state = "collected"]
    /\ UNCHANGED <<capPc, total>>
    /\ UNCHANGED <<zoomVars, spiralVars, filterVars, scanVars>>

\* line 481 for a future whose call raised: future.result() raises it again in
\* find_images, nothing there catches it, and the program ends with it (the
\* executor's exit lets the calls already submitted run on)
CollectRaises ==
    /\ capPc = "collect"
    /\ \E t \in FuturesIn("done") :
        /\ CaptureRaises(futures[t].outcome)
        /\ futures' = [futures EXCEPT ![t].state = "collected"]
    /\ capPc' = "crashed"
    /\ UNCHANGED <<total, success_count, pbar>>
    /\ UNCHANGED <<zoomVars, spiralVars, filterVars, scanVars>>

\* line 488: every future was collected
Summary ==
    /\ capPc = "collect"
    /\ \A t \in 1..Len(futures) : futures[t].state = "collected"
    /\ capPc' = "summary"
    /\ UNCHANGED <<total, futures, success_count, pbar>>
    /\ UNCHANGED <<zoomVars, spiralVars, filterVars, scanVars>>

(***************************************************************************)
(* Filter mode: read_csv, write_csv and the commands of filter_locations   *)
(***************************************************************************)
\* An address is a sequence of characters; a row is (address, latitude,
\* longitude), or the empty tuple that csv.reader gives for an empty line.
Lower(ch) == IF ch = "A" THEN "a" ELSE IF ch = "B" THEN "b" ELSE ch

\* str.lower()
LowerStr(str) == [k \in 1..Len(str) |-> Lower(str[k])]

\* str.strip(): without its leading and trailing white space
RECURSIVE Strip(_)
Strip(str) ==
    IF str = <<>> THEN str
    ELSE IF Head(str) = " " THEN Strip(Tail(str))
    ELSE IF str[Len(str)] = " " THEN Strip(SubSeq(str, 1, Len(str) - 1))
    ELSE str

\* row[0].strip().lower()
AddressKey(row) == LowerStr(Strip(row[1]))

\* `if row`: a tuple is true when it is not empty
Truthy(row) == row # <<>>

\* The sample rows the files are made of: the same address with other
\* coordinates, in another letter case and with white space, another address,
\* and an empty line.
SampleAddresses == {<<"a">>, <<" ", "A">>, <<"b">>}
SampleRows ==
    {<<>>} \cup {<<ad, "1", "0">> : ad \in SampleAddresses} \cup {<<<<"a">>, "2", "0">>}

\* A file is the number of lines it holds of each row.  The program reads a
\* file only through read_csv and csv.reader, and no command modelled here
\* looks at the order of a file's lines.
LineCount(file) ==
    LET RECURSIVE Sum(_)
        Sum(S) == IF S = {} THEN 0
                  ELSE LET r == CHOOSE e \in S : TRUE IN file[r] + Sum(S \ {r})
    IN  Sum(DOMAIN file)

FilesUpTo(n) == {f \in [SampleRows -> 0..n] : LineCount(f) <= n}

\* read_csv: set(tuple(row) for row in csv.reader(f))
read_csv(file) == {row \in DOMAIN file : file[row] > 0}

\* write_csv of a set: writerows writes each row of the set once
write_csv_set(data) == [row \in SampleRows |-> IF row \in data THEN 1 ELSE 0]

\* write_csv of a list: one line for each element
write_csv_list(data) ==
    [row \in SampleRows |-> Cardinality({k \in 1..Len(data) : data[k] = row})]

\* the orders in which a set can be iterated
Orderings(S) ==
    {f \in [1..Cardinality(S) -> S] : \A p, q \in 1..Cardinality(S) : p # q => f[p] # f[q]}

\* lines 354-355
Addresses(lines) == {AddressKey(row) : row \in {r \in lines : Truthy(r)}}

\* lines 358-359
UnionResult(lines1, lines2) ==
    {row \in lines1 : Truthy(row) /\ AddressKey(row) \in Addresses(lines1)}
        \cup {row \in lines2 : Truthy(row) /\ AddressKey(row) \in Addresses(lines2)}

\* IntersectResult keeping the first file's rows only
IntersectResult_FirstFile(lines1, lines2) ==
    LET common_addresses == Addresses(lines1) \cap Addresses(lines2)
    IN  {row \in lines1 : Truthy(row) /\ AddressKey(row) \in common_addresses}

\* lines 363-365
IntersectResult(lines1, lines2) ==
    LET common_addresses == Addresses(lines1) \cap Addresses(lines2)
    IN  {row \in lines1 : Truthy(row) /\ AddressKey(row) \in common_addresses}
            \cup {row \in lines2 : Truthy(row) /\ AddressKey(row) \in common_addresses}

\* lines 369-370
DifferenceResult(lines1, lines2) ==
    LET diff_addresses == Addresses(lines1) \ Addresses(lines2)
    IN  {row \in lines1 : Truthy(row) /\ AddressKey(row) \in diff_addresses}

\* UniqueKeeps comparing the address as written, not its key
UniqueKeeps_Always(addr, seen_addresses) == TRUE

\* line 402: whether the row is kept
UniqueKeeps(addr, seen_addresses) == addr \notin seen_addresses

\* lines 393-404 over the rows in the order the set is iterated; row[0] of an
\* empty tuple raises IndexError and the row is passed over
RECURSIVE UniqueResult(_, _, _)
UniqueResult(order, seen_addresses, result) ==
    IF order = <<>> THEN result
    ELSE LET row == Head(order)
         IN  IF ~Truthy(row) THEN UniqueResult(Tail(order), seen_addresses, result)
             ELSE IF UniqueKeeps(AddressKey(row), seen_addresses)
             THEN UniqueResult(Tail(order), seen_addresses \cup {AddressKey(row)},
                               Append(result, row))
             ELSE UniqueResult(Tail(order), seen_addresses, result)

\* the files the commands are given: the two-file commands the two input files,
\* in either order or one of them twice; unique also the newest result file
InputNames == {"file1", "file2"}
FileNames == InputNames \cup (IF outCmd = None THEN {} ELSE {"out"})
Content(name) ==
    IF name = "file1" THEN file1 ELSE IF name = "file2" THEN file2 ELSE outFile
\* the command that wrote the file, None for an input file
WrittenBy(name) == IF name = "out" THEN outCmd ELSE None

\* the most rows the two input files hold together
MaxRows == 3

FilterInit ==
    /\ file1 \in FilesUpTo(MaxRows)
    /\ file2 \in FilesUpTo(MaxRows - LineCount(file1))
    /\ outFile = write_csv_set({})
    /\ outCmd = None
    /\ last = [cmd |-> None, arg1 |-> None, arg2 |-> None,
               lines1 |-> {}, lines2 |-> {}, from |-> None]

\* lines 336-373 for one of the three two-file commands
TwoFileCommand(cmd, arg1, arg2) ==
    LET lines1 == read_csv(Content(arg1))
        lines2 == read_csv(Content(arg2))
        result == CASE cmd = "union" -> UnionResult(lines1, lines2)
                    [] cmd = "intersect" -> IntersectResult(lines1, lines2)
                    [] cmd = "difference" -> DifferenceResult(lines1, lines2)
    IN  /\ outFile' = write_csv_set(result)
        /\ outCmd' = cmd
        /\ last' = [cmd |-> cmd, arg1 |-> arg1, arg2 |-> arg2,
                    lines1 |-> lines1, lines2 |-> lines2, from |-> WrittenBy(arg1)]
        /\ UNCHANGED <<file1, file2>>
        /\ UNCHANGED <<zoomVars, spiralVars, captureVars, scanVars>>

Union == \E arg1 \in InputNames, arg2 \in InputNames : TwoFileCommand("union", arg1, arg2)

Intersect ==
    \E arg1 \in InputNames, arg2 \in InputNames : TwoFileCommand("intersect", arg1, arg2)

Difference ==
    \E arg1 \in InputNames, arg2 \in InputNames : TwoFileCommand("difference", arg1, arg2)

\* lines 390-406 and 412
Unique ==
    \E arg \in FileNames :
        LET lines == read_csv(Content(arg))
        IN  /\ \E order \in Orderings(lines) : outFile' = write_csv_list(UniqueResult(order, {}, <<>>))
            /\ outCmd' = "unique"
            /\ last' = [cmd |-> "unique", arg1 |-> arg, arg2 |-> None,
                        lines1 |-> lines, lines2 |-> {}, from |-> WrittenBy(arg)]
            /\ UNCHANGED <<file1, file2>>
            /\ UNCHANGED <<zoomVars, spiralVars, captureVars, scanVars>>

(***************************************************************************)
(* Scan mode: scan_locations after the radius was read and the page loaded *)
(***************************************************************************)
\* lines 176 and 202: the margins of the two limit loops; line 231: the step
\* of the spiral; line 232: max_retries
XMargin == 100
YMargin == 120
SpiralStep == 5
max_retries == 3

\* The page.  The map is centred on the origin (lat, lon) in the middle of the
\* canvas and the context menu's first entry shows the clicked point; a point
\* stands for its coordinates by its offset from the origin in pixels, and its
\* geodesic distance is that offset's length times the map's scale.
CoordsAt(pageX, pageY) ==
    <<pageX - bounding_box[1] - width \div 2, pageY - bounding_box[2] - height \div 2>>

\* geodesic((lat, lon), coords).kilometers > radius
Beyond(c) ==
    metersPerPixel * metersPerPixel * (c[1] * c[1] + c[2] * c[2]) > radius * radius

\* range(n): the number of passes of `for _ in range(n)`
RangeLen(n) == Max(0, n)

\* the radii, scales and canvases of the scans modelled
ScanRadii == {40, 100}
ScanScales == {1, 2}
CanvasWidths == {250, 300}
CanvasHeights == {270, 290}
\* the canvas fills the window once the side bar is disabled
CanvasOrigins == {<<0, 0>>}

\* the most buildings the map shows
MaxBuildings == 1

\* lines 152-175: the radius is read, the page is loaded, the canvas measured
ScanInit ==
    /\ zPc = "scan" /\ zInput = 0 /\ prevRadius = 0 /\ prevZoom = 0
    /\ radius \in ScanRadii
    /\ zoom = compute_zoom(radius)
    /\ metersPerPixel \in ScanScales
    /\ width \in CanvasWidths
    /\ height \in CanvasHeights
    /\ bounding_box \in CanvasOrigins
    /\ limits = <<width \div 2, height \div 2>>
    /\ x = width \div 2
    /\ y = height \div 2
    /\ stepsLeft = RangeLen((width \div 2 - XMargin) \div zoom)
    /\ scPc = "scan_x"
    /\ gen = None /\ visited = <<>>
    /\ attempt = 0 /\ success = FALSE /\ reloads = 0
    /\ coords = None /\ address = None
    /\ building_count = 0 /\ rows = <<>>

scanLoopVars == <<attempt, success, reloads, coords, address, building_count, rows>>
scanFrame == <<zoomVars, visited, captureVars, filterVars, width, height, bounding_box,
               metersPerPixel>>

\* lines 177-195, a pass of the X loop that goes on: the menu is there and the
\* point clicked is within the radius
ScanXStep ==
    /\ scPc = "scan_x"
    /\ stepsLeft > 0
    /\ ~Beyond(CoordsAt(bounding_box[1] + x, bounding_box[2] + y))
    /\ x' = x - zoom
    /\ limits' = <<limits[1] - zoom, limits[2]>>
    /\ stepsLeft' = stepsLeft - 1
    /\ UNCHANGED <<scPc, y, gen, scanLoopVars, scanFrame>>

\* the X loop ends: the range is used up, or the menu is missing (line 184),
\* or the point clicked is beyond the radius (line 192); then lines 197-202
ScanXEnd ==
    /\ scPc = "scan_x"
    /\ \/ stepsLeft = 0
       \/ stepsLeft > 0 /\ \E menu \in BOOLEAN :
            ~menu \/ Beyond(CoordsAt(bounding_box[1] + x, bounding_box[2] + y))
    /\ x' = width \div 2
    /\ stepsLeft' = RangeLen((y - YMargin) \div zoom)
    /\ scPc' = "scan_y"
    /\ UNCHANGED <<y, limits, gen, scanLoopVars, scanFrame>>

\* lines 203-222, a pass of the Y loop that goes on
ScanYStep ==
    /\ scPc = "scan_y"
    /\ stepsLeft > 0
    /\ ~Beyond(CoordsAt(bounding_box[1] + x, bounding_box[2] + y))
    /\ y' = y - zoom
    /\ limits' = <<limits[1], limits[2] - zoom>>
    /\ stepsLeft' = stepsLeft - 1
    /\ UNCHANGED <<scPc, x, gen, scanLoopVars, scanFrame>>

\* the Y loop ends (lines 211, 219 or the range); line 231 makes the spiral
ScanYEnd ==
    /\ scPc = "scan_y"
    /\ \/ stepsLeft = 0
       \/ stepsLeft > 0 /\ \E menu \in BOOLEAN :
            ~menu \/ Beyond(CoordsAt(bounding_box[1] + x, bounding_box[2] + y))
    /\ gen' = Spiral(width, height, limits, SpiralStep)
    /\ scPc' = "spiral"
    /\ UNCHANGED <<x, y, limits, stepsLeft, scanLoopVars, scanFrame>>

\* line 231: the for loop takes the next cell, lines 232-236
NextCell ==
    /\ scPc = "spiral"
    /\ SpiralYielding(SpiralResume(gen))
    /\ gen' = SpiralResume(gen)
    /\ x' = gen'.x
    /\ y' = gen'.y
    /\ attempt' = 0 /\ success' = FALSE /\ reloads' = 0
    /\ coords' = None /\ address' = None
    /\ scPc' = "cell"
    /\ UNCHANGED <<limits, stepsLeft, building_count, rows, scanFrame>>

\* the spiral has ended: lines 297-299
ScanDone ==
    /\ scPc = "spiral"
    /\ ~SpiralYielding(SpiralResume(gen))
    /\ gen' = SpiralResume(gen)
    /\ scPc' = "finished"
    /\ UNCHANGED <<x, y, limits, stepsLeft, scanLoopVars, scanFrame>>

\* lines 240-248: the cursor is a pointer; the cell is left (line 267)
ClickPointer ==
    /\ scPc = "cell"
    /\ attempt < max_retries /\ ~success
    /\ success' = FALSE
    /\ scPc' = "spiral"
    /\ UNCHANGED <<x, y, limits, stepsLeft, gen, attempt, reloads, coords, address,
                   building_count, rows, scanFrame>>

\* lines 240-252: the menu is there; the page click is at (x, y)
ClickMenu ==
    /\ scPc = "cell"
    /\ attempt < max_retries /\ ~success
    /\ coords' = CoordsAt(x, y)
    /\ success' = TRUE
    /\ scPc' = "address"
    /\ UNCHANGED <<x, y, limits, stepsLeft, gen, attempt, reloads, address,
                   building_count, rows, scanFrame>>

\* whether the while loop of line 238 goes round again
RetryGoesOn(att, succ) == att < max_retries /\ ~succ

\* lines 253-264: an element is missing or a call timed out; the handler
\* counts the attempt and reloads the page, and the reload succeeds
ClickError ==
    /\ scPc = "cell"
    /\ attempt < max_retries /\ ~success
    /\ attempt' = attempt + 1
    /\ reloads' = reloads + 1
    /\ scPc' = IF RetryGoesOn(attempt', success) THEN "cell" ELSE "spiral"
    /\ UNCHANGED <<x, y, limits, stepsLeft, gen, success, coords, address,
                   building_count, rows, scanFrame>>

\* lines 253-259: as before, but load_browser raises in its turn (page.goto or
\* wait_for_selector times out, or #itamenu is missing); the exception comes
\* from inside the handler, nothing in scan_locations catches it, and the main
\* loop catches KeyboardInterrupt alone
ClickErrorReloadRaises ==
    /\ scPc = "cell"
    /\ attempt < max_retries /\ ~success
    /\ attempt' = attempt + 1
    /\ scPc' = "crashed"
    /\ UNCHANGED <<x, y, limits, stepsLeft, gen, success, reloads, coords, address,
                   building_count, rows, scanFrame>>

\* lines 269-288: the address of the modal dialog, then of the main panel when
\* it is visible (the page is then loaded again; what that raises is caught)
AddressFound(modal, panel) ==
    IF panel = "address" THEN "panel address"
    ELSE IF modal THEN "dialog address" ELSE None

\* lines 269-291 when no address was found: the cell is left
NoAddress ==
    /\ scPc = "address"
    /\ \E modal \in BOOLEAN, panel \in {"hidden", "no address", "address"} :
        /\ AddressFound(modal, panel) = None
        /\ address' = None
        /\ reloads' = IF panel = "hidden" THEN reloads ELSE reloads + 1
    /\ scPc' = "spiral"
    /\ UNCHANGED <<x, y, limits, stepsLeft, gen, attempt, success, coords,
                   building_count, rows, scanFrame>>

\* lines 269-295 when an address was found: the row is written and counted
WriteRow ==
    /\ scPc = "address"
    /\ building_count < MaxBuildings
    /\ \E modal \in BOOLEAN, panel \in {"hidden", "no address", "address"} :
        /\ AddressFound(modal, panel) # None
        /\ address' = AddressFound(modal, panel)
        /\ reloads' = IF panel = "hidden" THEN reloads ELSE reloads + 1
        /\ rows' = Append(rows, <<address', coords[1], coords[2]>>)
    /\ building_count' = building_count + 1
    /\ scPc' = "spiral"
    /\ UNCHANGED <<x, y, limits, stepsLeft, gen, attempt, success, coords, scanFrame>>

(***************************************************************************)
(* Specifications                                                          *)
(***************************************************************************)
IdleZoom ==
    /\ zPc = "off" /\ zInput = 0 /\ radius = 0 /\ zoom = 0
    /\ prevRadius = 0 /\ prevZoom = 0
IdleSpiral == gen = None /\ visited = <<>>
IdleCapture ==
    /\ capPc = "off" /\ total = 0 /\ futures = <<>>
    /\ success_count = 0 /\ pbar = 0

IdleFilter ==
    /\ file1 = None /\ file2 = None /\ outFile = None /\ outCmd = None
    /\ last = None

IdleScan ==
    /\ scPc = "off" /\ width = 0 /\ height = 0 /\ bounding_box = <<0, 0>>
    /\ metersPerPixel = 0 /\ limits = <<0, 0>> /\ x = 0 /\ y = 0 /\ stepsLeft = 0
    /\ attempt = 0 /\ success = FALSE /\ reloads = 0 /\ coords = None
    /\ address = None /\ building_count = 0 /\ rows = <<>>

InitZoom == ZoomInit /\ IdleSpiral /\ IdleCapture /\ IdleFilter /\ IdleScan
NextZoom == EnterRadius \/ ComputeZoom \/ NextScan
SpecZoom == InitZoom /\ [][NextZoom]_vars

InitSpiral == SpiralInit /\ IdleZoom /\ IdleCapture /\ IdleFilter /\ IdleScan
NextSpiral == SpiralYield \/ SpiralReturn
SpecSpiral == InitSpiral /\ [][NextSpiral]_vars

CaptureInit ==
    /\ capPc = "submit"
    /\ total \in 0..MaxLocations
    /\ futures = <<>>
    /\ success_count = 0
    /\ pbar = 0
InitCapture == CaptureInit /\ IdleZoom /\ IdleSpiral /\ IdleFilter /\ IdleScan
NextCapture ==
    \/ Submit \/ StartCollect \/ WorkerStart \/ WorkerFinish
    \/ CollectResult \/ CollectRaises \/ Summary
SpecCapture == InitCapture /\ [][NextCapture]_vars

InitFilter == FilterInit /\ IdleZoom /\ IdleSpiral /\ IdleCapture /\ IdleScan
NextFilter == Union \/ Intersect \/ Difference \/ Unique
SpecFilter == InitFilter /\ [][NextFilter]_vars

InitScan == ScanInit /\ IdleCapture /\ IdleFilter
NextScanStep ==
    \/ ScanXStep \/ ScanXEnd \/ ScanYStep \/ ScanYEnd \/ NextCell \/ ScanDone
    \/ ClickPointer \/ ClickMenu \/ ClickError \/ ClickErrorReloadRaises
    \/ NoAddress \/ WriteRow
SpecScan == InitScan /\ [][NextScanStep]_vars

(***************************************************************************)
(* The claims                                                              *)
(***************************************************************************)
Range(q) == {q[k] : k \in 1..Len(q)}

\* the grid cells of the bounding box: the points at whole steps from the
\* centre, within the limits
BoxCells(g) ==
    {c \in (XMin(g)..XMax(g)) \X (YMin(g)..YMax(g)) :
        /\ (c[1] - g.width \div 2) % g.step = 0
        /\ (c[2] - g.height \div 2) % g.step = 0}

\* the ring of a cell: its distance from the centre, in steps, along the axis
\* where it is farther
Ring(g, c) == Max(Abs(c[1] - g.width \div 2), Abs(c[2] - g.height \div 2)) \div g.step

\* C1: when the limits are within the half width and the half height, the
\* spiral has yielded every grid cell of the bounding box by the time it ends.
C1_SpiralCoversBox ==
    (/\ gen.pc = "returned"
     /\ gen.limits[1] <= gen.width \div 2
     /\ gen.limits[2] <= gen.height \div 2)
        => BoxCells(gen) \subseteq Range(visited)

\* C2: the spiral yields no cell twice, starts at the centre, and the ring of
\* the cells it yields never decreases.
C2_SpiralNeverRevisits ==
    /\ \A p, q \in 1..Len(visited) : p # q => visited[p] # visited[q]
    /\ Len(visited) >= 1 => visited[1] = <<gen.width \div 2, gen.height \div 2>>
    /\ \A p, q \in 1..Len(visited) : p <= q => Ring(gen, visited[p]) <= Ring(gen, visited[q])

\* a spiral that ended after it went around the centre into the second ring
C2_Witness ==
    /\ gen.pc = "returned"
    /\ \E p \in 1..Len(visited) : Ring(gen, visited[p]) >= 2
    /\ gen.width # gen.height

\* C3: a failure on a cell costs at most max_retries attempts and reloads, and
\* no failure, one raised by the reload included, ends the scan.
C3_FailureNeverEndsScan ==
    /\ attempt <= max_retries
    /\ reloads <= max_retries
    /\ scPc # "crashed"

\* C4: the zoom level computed for a radius is within [7, 21].
C4_ZoomClamped ==
    zPc = "scanned" => (FarZoom <= zoom /\ zoom <= NearZoom)

\* C5: of two radii, the larger never gets the larger zoom level.
C5_ZoomMonotonic ==
    (zPc = "scanned" /\ prevRadius > 0 /\ prevRadius <= radius) => prevZoom >= zoom

\* C6: every row is handed to exactly one capture call, at most batch_size
\* calls run at a time, and the two counters change only when the collecting
\* thread takes one finished call, whichever finished first: the progress by
\* one, the successes by at most one, so that the progress is the number of
\* results collected.
C6_State ==
    /\ Cardinality(FuturesIn("running")) <= batch_size
    /\ \A loc \in 1..total :
          Cardinality({t \in 1..Len(futures) : futures[t].loc = loc})
              = (IF loc <= Len(futures) \/ capPc # "submit" THEN 1 ELSE 0)
    /\ \A t \in 1..Len(futures) : futures[t].loc \in 1..total
    /\ pbar = Cardinality({t \in FuturesIn("collected") : ~CaptureRaises(futures[t].outcome)})
    /\ success_count <= pbar

C6_Step ==
    (success_count' # success_count \/ pbar' # pbar) =>
        /\ capPc = "collect"
        /\ pbar' = pbar + 1
        /\ success_count' \in {success_count, success_count + 1}
        /\ \E t \in FuturesIn("done") :
              futures' = [futures EXCEPT ![t].state = "collected"]

C6_WorkersShareNothing == [](C6_State) /\ [][C6_Step]_vars

\* the pool is full, a call is waiting and one has been collected
C6_Witness ==
    /\ Cardinality(FuturesIn("running")) = batch_size
    /\ total > batch_size
    /\ pbar >= 1

\* C7: a capture that fails is counted as a failure of its one location and the
\* run goes on to the summary; a location whose page loads returns 1.
C7_FailureIsCounted ==
    /\ capPc # "crashed"
    /\ \A t \in 1..Len(futures) :
          futures[t].outcome = "loaded" =>
              (~CaptureRaises(futures[t].outcome) /\ CaptureReturn(futures[t].outcome) = 1)
    /\ capPc = "summary" => pbar = total

\* at most one row for each address key
OneRowPerKey(lines) ==
    \A r1, r2 \in lines : (Truthy(r1) /\ Truthy(r2) /\ AddressKey(r1) = AddressKey(r2)) => r1 = r2

\* C8, as claimed: the output of each of union, intersect, difference and
\* unique holds at most one row for each lowercased, trimmed address.
C8_OneRowPerAddress ==
    last.cmd # None => OneRowPerKey(read_csv(outFile))

\* C8, amended: the commands match rows by address key, so the keys of the
\* output are the union, intersection or difference of the inputs' keys and
\* each output row is written once; unique alone leaves one row for each key.
C8_KeyedOnAddress ==
    /\ last.cmd # None =>
          /\ \A row \in DOMAIN outFile : outFile[row] <= 1
          /\ \A row \in read_csv(outFile) : Truthy(row)
    /\ last.cmd = "union" =>
          Addresses(read_csv(outFile)) = Addresses(last.lines1) \cup Addresses(last.lines2)
    /\ last.cmd = "intersect" =>
          Addresses(read_csv(outFile)) = Addresses(last.lines1) \cap Addresses(last.lines2)
    /\ last.cmd = "difference" =>
          Addresses(read_csv(outFile)) = Addresses(last.lines1) \ Addresses(last.lines2)
    /\ last.cmd = "unique" =>
          /\ OneRowPerKey(read_csv(outFile))
          /\ Addresses(read_csv(outFile)) = Addresses(last.lines1)
          /\ read_csv(outFile) \subseteq last.lines1

\* unique has dropped a row whose address key it had seen
C8_Witness ==
    /\ last.cmd = "unique"
    /\ ~OneRowPerKey(last.lines1)
    /\ Cardinality(read_csv(outFile)) >= 2

NonEmptyRows(lines) == {row \in lines : Truthy(row)}

\* C9: union and intersect give the same rows with the files exchanged; of a
\* file with itself they give its non-empty rows and difference gives none;
\* unique of unique's output gives that output's rows.
C9_SetAlgebra ==
    /\ last.cmd = "union" =>
          read_csv(outFile) = UnionResult(last.lines2, last.lines1)
    /\ last.cmd = "intersect" =>
          read_csv(outFile) = IntersectResult(last.lines2, last.lines1)
    /\ (last.cmd \in {"union", "intersect"} /\ last.arg1 = last.arg2) =>
          read_csv(outFile) = NonEmptyRows(last.lines1)
    /\ (last.cmd = "difference" /\ last.arg1 = last.arg2) =>
          read_csv(outFile) = {}
    /\ (last.cmd = "unique" /\ last.from = "unique") =>
          read_csv(outFile) = last.lines1

\* two files with a common address were intersected and the rows of both kept
C9_Witness ==
    /\ last.cmd = "intersect"
    /\ last.arg1 # last.arg2
    /\ read_csv(outFile) \ last.lines1 # {}
    /\ read_csv(outFile) \ last.lines2 # {}
    /\ NonEmptyRows(last.lines1) \ read_csv(outFile) # {}

\* C10: every row written is within the radius of the origin.
C10_RowsWithinRadius ==
    \A k \in 1..Len(rows) : ~Beyond(<<rows[k][2], rows[k][3]>>)


=============================================================================
